---- MODULE Spec2Model ----
(***************************************************************************)
(* DDalkkak movie: a topic prompt is turned into a narrated video.         *)
(* The model covers the data model (src/models.py), the script generator,  *)
(* the image and narration collaborators' file naming, the orchestrating   *)
(* pipeline and the video composer (subtitle overlay, fades, clip          *)
(* assembly, encoding and resource clean-up).                              *)
(*                                                                         *)
(* Conventions                                                             *)
(*  - An optional value (Python None or a value) is a sequence of length   *)
(*    at most one: <<>> is None, <<v>> is v.                               *)
(*  - A text is a sequence of characters; a character is a one-token       *)
(*    string.  "K" stands for any Hangul letter, the full-width            *)
(*    punctuation marks are written by their code points.                  *)
(*  - Durations are counted in half seconds, so the default transition     *)
(*    duration of 0.5 s is 1.                                              *)
(***************************************************************************)
EXTENDS Integers, Sequences, FiniteSets, TLC

VARIABLES
    composer,        \* the VideoComposer's fields
    script,          \* the Script (title, scenes) being filled in and composed
    out_arg,         \* compose's / create's output_filename argument
    cpc,             \* position inside VideoComposer.compose
    clips,           \* compose's local list of per-scene clips
    final_clip,      \* compose's concatenated clip (optional)
    open_clips,      \* clip resources opened and not yet closed
    output_files,    \* paths of the video files written under OUTPUT_DIR
    compose_result,  \* the path compose returned (optional)
    compose_error,   \* the exception compose raised (optional)
    pc,              \* position inside DDalkkakPipeline.create
    pipeline,        \* the pipeline's fields (test_mode, target_duration)
    idx,             \* loop position of the image / narration stage
    calls,           \* the collaborator calls made so far, in order
    temp_files,      \* files under TEMP_DIR: name -> what was generated into it
    create_result,   \* the path create returned (optional)
    response,        \* the language model's reply to the script request (optional)
    raised,          \* the call whose exception left create (optional)
    encoded,         \* the encodings done so far: path and duration of each
    ctor_args,       \* DDalkkakPipeline under construction: the arguments (optional)
    runs,            \* two runs sharing an installation: each run's state
    scratch,         \* two runs: which run's audio is in the encoder's scratch file
    wtext,           \* subtitle renderer under test: the text argument
    wout             \* subtitle renderer under test: the returned frame (optional)

composeVars == <<cpc, clips, final_clip, open_clips, output_files,
                 compose_result, compose_error, encoded>>
pipeVars    == <<pc, pipeline, idx, calls, temp_files, create_result, response,
                 raised>>
wrapVars    == <<wtext, wout>>
auxVars     == <<ctor_args, runs, scratch>>
vars == <<composer, script, out_arg, cpc, clips, final_clip, open_clips,
          output_files, compose_result, compose_error, pc, pipeline, idx,
          calls, temp_files, create_result, response, raised, encoded,
          ctor_args, runs, scratch, wtext, wout>>

(***************************************************************************)
(* Bounds of the model                                                     *)
(***************************************************************************)
MaxScenes == 3          \* scenes of a script handed directly to compose
MaxRespScenes == 2      \* scenes in a language-model response
MaxSceneNumber == 2     \* largest scene_number a response may carry
MaxDur == 2             \* longest audio duration (half seconds)
MaxBlocks == 3          \* blocks of text handed to the subtitle renderer
MaxRuns == 2            \* times compose is called on the same script

None == <<>>
Some(v) == <<v>>

Range(s) == {s[k] : k \in 1..Len(s)}

RECURSIVE SumSeq(_)
SumSeq(s) == IF s = <<>> THEN 0 ELSE Head(s) + SumSeq(Tail(s))

Repeat(c, n) == [k \in 1..n |-> c]

(***************************************************************************)
(* src/config.py                                                           *)
(***************************************************************************)
DEFAULT_VIDEO_WIDTH == 1920
DEFAULT_VIDEO_HEIGHT == 1080
DEFAULT_FPS == 30

ResolutionKeys == {"720p", "1080p", "1440p", "4k"}

RESOLUTION_PRESETS ==
    [k \in ResolutionKeys |->
        CASE k = "720p"  -> <<1280, 720>>
          [] k = "1080p" -> <<1920, 1080>>
          [] k = "1440p" -> <<2560, 1440>>
          [] k = "4k"    -> <<3840, 2160>>]

\* the lookup that falls back to the smallest preset (a faulty variant)
PresetOfSmallestFallback(resolution) ==
    IF resolution \in DOMAIN RESOLUTION_PRESETS
    THEN RESOLUTION_PRESETS[resolution]
    ELSE RESOLUTION_PRESETS["720p"]

\* RESOLUTION_PRESETS.get(resolution, RESOLUTION_PRESETS["1080p"])
PresetOf(resolution) ==
    IF resolution \in DOMAIN RESOLUTION_PRESETS
    THEN RESOLUTION_PRESETS[resolution]
    ELSE RESOLUTION_PRESETS["1080p"]

(***************************************************************************)
(* Characters                                                              *)
(***************************************************************************)
\* the characters after which the subtitle wrap may break:  " .,!?。，！？"
BreakChars == {" ", ".", ",", "!", "?", "u3002", "uFF0C", "uFF01", "uFF1F"}

\* str.isspace for the characters of the model
IsSpace(c) == c = " "

Digits == {"0", "1", "2", "3", "4", "5", "6", "7", "8", "9"}
Letters == {"a", "b", "e", "s", "t", "K"}

\* str.isalnum for the characters of the model
IsAlnum(c) == c \in Letters \cup Digits

DigitChar == <<"0", "1", "2", "3", "4", "5", "6", "7", "8", "9">>

\* f"{n:03d}" for 0 <= n < 1000, as a string
Fmt3(n) == DigitChar[((n \div 100) % 10) + 1]
           \o DigitChar[((n \div 10) % 10) + 1]
           \o DigitChar[(n % 10) + 1]

\* f"{n}" for 0 <= n < 100, as a text
RECURSIVE Str(_)
Str(n) == IF n < 10 THEN <<DigitChar[n + 1]>>
          ELSE Str(n \div 10) \o <<DigitChar[(n % 10) + 1]>>

\* str.strip()
RECURSIVE LStrip(_)
LStrip(s) == IF s # <<>> /\ IsSpace(Head(s)) THEN LStrip(Tail(s)) ELSE s

RECURSIVE RStrip(_)
RStrip(s) == IF s # <<>> /\ IsSpace(s[Len(s)])
             THEN RStrip(SubSeq(s, 1, Len(s) - 1)) ELSE s

Strip(s) == RStrip(LStrip(s))

(***************************************************************************)
(* src/models.py                                                           *)
(***************************************************************************)
\* Scene(scene_number, narration, image_prompt): the artifacts start unset
Scene(n, narration, image_prompt) ==
    [scene_number |-> n, narration |-> narration,
     image_prompt |-> image_prompt,
     duration |-> None, image_path |-> None, audio_path |-> None]

\* Script.total_scenes
total_scenes(s) == Len(s.scenes)

\* s.duration or 0
DurationOr0(sc) ==
    IF sc.duration = None \/ sc.duration[1] = 0 THEN 0 ELSE sc.duration[1]

\* Script.total_duration
total_duration(s) ==
    SumSeq([k \in 1..Len(s.scenes) |-> DurationOr0(s.scenes[k])])

(***************************************************************************)
(* VideoComposer._add_subtitle_to_image                                    *)
(***************************************************************************)
max_chars_per_line == 40
line_height == 45
padding == 20
bottom_margin == 60
band_bottom_margin == 40

Ellipsis == <<".", ".", ".">>

\* a break as soon as the line is max_chars_per_line long, whatever the
\* character is (a faulty variant)
BreakAtAnyChar(text, p) ==
    IF p + max_chars_per_line - 1 <= Len(text)
    THEN p + max_chars_per_line - 1
    ELSE 0

\* where the line that starts at position p is broken: at the first
\* character, from the one that makes the line max_chars_per_line long, that
\* is a break character (0: the line is never broken)
BreakAt(text, p) ==
    LET cands == {j \in (p + max_chars_per_line - 1)..Len(text) :
                     text[j] \in BreakChars}
    IN  IF cands = {} THEN 0
        ELSE CHOOSE j \in cands : \A i \in cands : j <= i

\* the loop over the characters of the text, taken a line at a time: the
\* characters from position p on are added to current_line until the line
\* is broken, the stripped line being appended to lines
RECURSIVE WrapLoop(_, _, _)
WrapLoop(text, p, lines) ==
    IF p > Len(text) THEN lines
    ELSE LET j == BreakAt(text, p)
         IN  IF j = 0
             THEN Append(lines, Strip(SubSeq(text, p, Len(text))))
             ELSE WrapLoop(text, j + 1, Append(lines, Strip(SubSeq(text, p, j))))

\* the greedy wrap, with the rest of the text as the last line
GreedyWrap(text) == WrapLoop(text, 1, <<>>)

\* the cap that drops the marker (a faulty variant)
CapLinesNoMarker(lines) ==
    IF Len(lines) > 2 THEN <<lines[1], lines[2]>> ELSE lines

\* at most 2 lines
CapLines(lines) ==
    IF Len(lines) > 2 THEN <<lines[1], lines[2] \o Ellipsis>> ELSE lines

\* an image loaded from `path` and resampled to width x height
Frame(path, width, height) ==
    [img |-> path, size |-> <<width, height>>, band |-> None, draws |-> <<>>]

\* the frame with the background band and the shadowed lines drawn on it
AddSubtitleToImage(frame, text, width, height) ==
    LET lines        == CapLines(GreedyWrap(text))
        total_height == Len(lines) * line_height
        y_start      == height - total_height - bottom_margin
        bg_top       == y_start - padding
        bg_bottom    == height - band_bottom_margin
    IN  [frame EXCEPT
           !.band  = Some(<<0, bg_top, width, bg_bottom>>),
           !.draws = [k \in 1..Len(lines) |->
                        [line |-> lines[k],
                         y |-> y_start + (k - 1) * line_height]]]

\* the lines of text shown on a frame
DisplayedLines(frame) == [k \in 1..Len(frame.draws) |-> frame.draws[k].line]

(***************************************************************************)
(* VideoComposer                                                           *)
(***************************************************************************)
DefaultTransitionDuration == 1      \* 0.5 s

\* the composer's fields after __init__
VideoComposer(width, height, subtitles, transitions, duration) ==
    [width |-> width, height |-> height, fps |-> DEFAULT_FPS,
     enable_subtitles |-> subtitles,
     enable_transitions |-> transitions,
     transition_duration |-> duration]

\* a fade applied whatever the transition duration is (a faulty
\* variant)
CreateFadeEffectNoGuard(self, clip, fade_in, fade_out) ==
    [clip EXCEPT
       !.fadein  = IF fade_in THEN Some(self.transition_duration) ELSE @,
       !.fadeout = IF fade_out THEN Some(self.transition_duration) ELSE @]

\* VideoComposer._create_fade_effect
CreateFadeEffect(self, clip, fade_in, fade_out) ==
    [clip EXCEPT
       !.fadein  = IF fade_in /\ self.transition_duration > 0
                   THEN Some(self.transition_duration) ELSE @,
       !.fadeout = IF fade_out /\ self.transition_duration > 0
                   THEN Some(self.transition_duration) ELSE @]

\* compose_scene's precondition: not scene.image_path or not scene.audio_path
MissingArtifact(scene) == scene.image_path = None \/ scene.audio_path = None

\* the exception without the scene's number (a faulty variant)
SceneValueErrorUnnamed(scene) == [type |-> "ValueError", scene |-> None]

\* the exception compose_scene raises for such a scene
SceneValueError(scene) == [type |-> "ValueError", scene |-> Some(scene.scene_number)]

\* the frame of a scene: loaded, resized, subtitled when enabled and the
\* narration is not empty
SceneFrame(self, scene) ==
    LET img_array == Frame(scene.image_path[1], self.width, self.height)
    IN  IF self.enable_subtitles /\ scene.narration # <<>>
        THEN AddSubtitleToImage(img_array, scene.narration, self.width, self.height)
        ELSE img_array

\* the clip compose_scene returns for a scene that has its artifacts
ComposeScene(self, scene, is_first, is_last) ==
    LET image_clip == [frame |-> SceneFrame(self, scene),
                       duration |-> scene.duration,
                       fadein |-> None, fadeout |-> None, audio |-> None]
        faded == IF self.enable_transitions
                 THEN CreateFadeEffect(self, image_clip, is_first, is_last)
                 ELSE image_clip
    IN  [faded EXCEPT !.audio = Some(scene.audio_path[1])]

SceneClipRes(i) == [res |-> "scene_clip", n |-> i]
FinalClipRes == [res |-> "final_clip", n |-> 0]

\* "".join(c for c in title if c.isalnum() or c in (" ", "-", "_")).strip()
SafeTitle(title) ==
    LET Keep(c) == IsAlnum(c) \/ c \in {" ", "-", "_"}
    IN  Strip(SelectSeq(title, Keep))

Mp4 == <<".", "m", "p", "4">>

\* a file name made unique by the number of encodings done (a faulty
\* variant)
OutputFilenameNumbered(s, output_filename) ==
    (IF output_filename = None THEN SafeTitle(s.title) \o Mp4
     ELSE output_filename[1]) \o Str(Len(encoded))

\* the output file name: the argument, or the one derived from the title
OutputFilename(s, output_filename) ==
    IF output_filename = None THEN SafeTitle(s.title) \o Mp4
    ELSE output_filename[1]

\* one turn of compose's loop over the scenes: build the next scene's clip,
\* or leave compose with compose_scene's ValueError
ComposeLoopStep ==
    /\ cpc = "loop"
    /\ Len(clips) < Len(script.scenes)
    /\ LET i     == Len(clips) + 1
           scene == script.scenes[i]
       IN  IF MissingArtifact(scene)
           THEN /\ compose_error' = Some(SceneValueError(scene))
                /\ cpc' = "raised"
                /\ UNCHANGED <<clips, open_clips>>
           ELSE /\ clips' = Append(clips,
                      ComposeScene(composer, scene, i = 1, i = Len(script.scenes)))
                /\ open_clips' = open_clips \cup {SceneClipRes(i)}
                /\ UNCHANGED <<cpc, compose_error>>
    /\ UNCHANGED <<composer, script, out_arg, final_clip, output_files,
                   compose_result, pipeVars, encoded, 
                   wrapVars, auxVars>>

\* an empty list of clips accepted (a faulty variant)
CanConcatenateEmpty(cs) ==
    \A k \in 1..Len(cs) : cs[k].duration # None

\* concatenate_videoclips(clips, method="compose"): the clips end to end.
\* The library fails on an empty list (max() of no sizes) and on a clip
\* without a duration (the running sum of the durations).
CanConcatenate(cs) ==
    cs # <<>> /\ \A k \in 1..Len(cs) : cs[k].duration # None

\* clips overlapping by one transition at every junction (a faulty
\* variant)
ConcatenatedOverlapping(cs) ==
    [segments |-> cs,
     duration |-> SumSeq([k \in 1..Len(cs) |-> cs[k].duration[1]])
                  - (Len(cs) - 1) * DefaultTransitionDuration]

\* clips in reverse order (a faulty variant)
ConcatenatedReversed(cs) ==
    [segments |-> [k \in 1..Len(cs) |-> cs[Len(cs) + 1 - k]],
     duration |-> SumSeq([k \in 1..Len(cs) |-> cs[k].duration[1]])]

Concatenated(cs) ==
    [segments |-> cs,
     duration |-> SumSeq([k \in 1..Len(cs) |-> cs[k].duration[1]])]

Concatenate ==
    /\ cpc = "loop"
    /\ Len(clips) = Len(script.scenes)
    /\ IF CanConcatenate(clips)
       THEN /\ final_clip' = Some(Concatenated(clips))
            /\ open_clips' = open_clips \cup {FinalClipRes}
            /\ cpc' = "encode"
            /\ UNCHANGED compose_error
       ELSE /\ compose_error' =
                 Some([type |-> IF clips = <<>> THEN "ValueError" ELSE "TypeError",
                       scene |-> None])
            /\ cpc' = "raised"
            /\ UNCHANGED <<final_clip, open_clips>>
    /\ UNCHANGED <<composer, script, out_arg, clips, output_files,
                   compose_result, pipeVars, encoded, 
                   wrapVars, auxVars>>

\* final_clip.write_videofile(...) succeeds; then the clean-up and the return
WriteVideofile ==
    /\ cpc = "encode"
    /\ LET output_path == OutputFilename(script, out_arg)
       IN  /\ output_files' = output_files \cup {output_path}
           /\ encoded' = Append(encoded, [path |-> output_path,
                                          duration |-> final_clip[1].duration])
           /\ compose_result' = Some(output_path)
    /\ open_clips' = open_clips \ ({FinalClipRes} \cup
                        {SceneClipRes(k) : k \in 1..Len(clips)})
    /\ cpc' = "returned"
    /\ UNCHANGED <<composer, script, out_arg, clips, final_clip, compose_error,
                   pipeVars, 
                   wrapVars, auxVars>>

\* final_clip.write_videofile(...) raises: compose is left at once
WriteVideofileFails ==
    /\ cpc = "encode"
    /\ compose_error' = Some([type |-> "EncoderError", scene |-> None])
    /\ cpc' = "raised"
    /\ UNCHANGED <<composer, script, out_arg, clips, final_clip, open_clips,
                   output_files, compose_result, pipeVars, encoded, 
                   wrapVars, auxVars>>

\* compose is called again on the same script, with the same composer and
\* the same output_filename argument
Recompose ==
    /\ cpc = "returned"
    /\ Len(encoded) < MaxRuns
    /\ cpc' = "loop"
    /\ clips' = <<>>
    /\ final_clip' = None
    /\ compose_result' = None
    /\ UNCHANGED <<composer, script, out_arg, open_clips, output_files,
                   compose_error, encoded, pipeVars, wrapVars, auxVars>>

ComposeNext ==
    \/ ComposeLoopStep
    \/ Concatenate
    \/ WriteVideofile
    \/ WriteVideofileFails
    \/ Recompose

(***************************************************************************)
(* VideoComposer.compose called by a library user on a script of its own   *)
(***************************************************************************)
TransitionDurations == {0, DefaultTransitionDuration}

Composers ==
    {VideoComposer(DEFAULT_VIDEO_WIDTH, DEFAULT_VIDEO_HEIGHT, es, et, td) :
        es \in BOOLEAN, et \in BOOLEAN, td \in TransitionDurations}

ImagePath(n) == "scene_" \o Fmt3(n) \o ".png"
AudioPath(n) == "audio_" \o Fmt3(n) \o ".mp3"

SceneKinds ==
    {<<"silent", 1>>, <<"noimage", 1>>, <<"noaudio", 1>>, <<"untimed", 1>>}
    \cup {<<"ready", d>> : d \in 1..MaxDur}

\* a scene as a caller may hand it to compose: ready (all set, narrated),
\* silent (all set, empty narration), or lacking one of its artifacts
DirectScene(kind, n) ==
    LET base == Scene(n, IF kind[1] = "silent" THEN <<>> ELSE <<"a", " ", "b", ".">>,
                      <<"p">>)
    IN  [base EXCEPT
           !.image_path = IF kind[1] = "noimage" THEN None ELSE Some(ImagePath(n)),
           !.audio_path = IF kind[1] = "noaudio" THEN None ELSE Some(AudioPath(n)),
           !.duration   = IF kind[1] \in {"untimed", "noaudio"} THEN None
                          ELSE Some(kind[2])]

Titles == {<<"a", " ", "b">>, <<"?", "a", "/", "b", " ">>, <<"?", "/">>}
OutArgs == {None, Some(<<"o", ".", "m", "p", "4">>)}

DirectScripts ==
    UNION {{[title |-> t,
             scenes |-> [k \in 1..n |-> DirectScene(kinds[k], k + off)]] :
               kinds \in [1..n -> SceneKinds], t \in Titles, off \in {0, 1}} :
           n \in 0..MaxScenes}

InitIdlePipeline ==
    /\ pc = "idle"
    /\ pipeline = [test_mode |-> FALSE, target_duration |-> 0]
    /\ idx = 0
    /\ calls = <<>>
    /\ temp_files = <<>>
    /\ create_result = None
    /\ response = None
    /\ raised = None

InitIdleWrap ==
    /\ wtext = <<>>
    /\ wout = None

InitIdleAux ==
    /\ ctor_args = None
    /\ runs = <<>>
    /\ scratch = None

InitCompose ==
    /\ composer \in Composers
    /\ script \in DirectScripts
    /\ out_arg \in OutArgs
    /\ cpc = "loop"
    /\ clips = <<>>
    /\ final_clip = None
    /\ open_clips = {}
    /\ output_files = {}
    /\ compose_result = None
    /\ compose_error = None
    /\ encoded = <<>>
    /\ InitIdlePipeline
    /\ InitIdleWrap
    /\ InitIdleAux

SpecCompose == InitCompose /\ [][ComposeNext]_vars

(***************************************************************************)
(* ScriptGenerator                                                         *)
(***************************************************************************)
MinScenes == 5
SecondsPerScene == 18
PlaceholderMaxScenes == 5

Max(a, b) == IF a >= b THEN a ELSE b
Min(a, b) == IF a <= b THEN a ELSE b

\* num_scenes = max(5, target_duration // 18)
NumScenesFor(target_duration) == Max(MinScenes, target_duration \div SecondsPerScene)

\* the placeholder narration and image prompt of scene i + 1
PlaceholderNarration(prompt, i) ==
    <<"K", "K", "K", " ", "'">> \o prompt \o <<"'", "K", " ", "K", "K", " ">>
    \o Str(i + 1)
    \o <<"K", "K", " ", "K", "K", "K", "K", "K", ".", " ">>
    \o <<"K", "K", "K", "K", " ", "K", "K", "K", "K", "K", "K", "K", ".">>

PlaceholderImagePrompt(prompt, i) ==
    <<"S", "c", "e", "n", "e", " ">> \o Str(i + 1) \o <<" ">> \o prompt

\* the placeholder script without the cap on its scenes (a faulty
\* variant)
GeneratePlaceholderUncapped(prompt, num_scenes) ==
    [title  |-> <<"K", "K", "K", ":", " ">> \o prompt,
     scenes |-> [k \in 1..num_scenes |->
                    Scene(k, PlaceholderNarration(prompt, k - 1),
                          PlaceholderImagePrompt(prompt, k - 1))]]

\* ScriptGenerator._generate_placeholder
GeneratePlaceholder(prompt, num_scenes) ==
    [title  |-> <<"K", "K", "K", ":", " ">> \o prompt,
     scenes |-> [k \in 1..Min(num_scenes, PlaceholderMaxScenes) |->
                    Scene(k, PlaceholderNarration(prompt, k - 1),
                          PlaceholderImagePrompt(prompt, k - 1))]]

\* the Script built from the parsed reply: every field is taken as it comes
ScriptFromResponse(data) ==
    [title  |-> data.title,
     scenes |-> [k \in 1..Len(data.scenes) |->
                    Scene(data.scenes[k].scene_number,
                          data.scenes[k].narration,
                          data.scenes[k].image_prompt)]]

Prompt == <<"t", "e", "s", "t">>

Narrations == {<<>>, <<"a", " ", "b", ".">>}

ResponseScenes ==
    [scene_number : 1..MaxSceneNumber, narration : Narrations,
     image_prompt : {<<"p">>}]

ResponseTitles == {<<"a", " ", "b">>, <<"?", "/">>}

\* the well-formed replies of the language model: parsable, with the title
\* and the three fields of every scene
Responses ==
    UNION {[title : ResponseTitles, scenes : [1..n -> ResponseScenes]] :
             n \in 0..MaxRespScenes}

(***************************************************************************)
(* DDalkkakPipeline                                                        *)
(***************************************************************************)
Call(op, k) == [op |-> op, k |-> k]

\* the narration stage left out (a faulty variant)
AfterImagesSkippingTTS(i, n) ==
    IF i <= n THEN <<"images", i>> ELSE <<"compose", 0>>

\* where create goes on after the image of scene i - 1 (the two loops over
\* the scenes, then the composition)
AfterImages(i, n) ==
    IF i <= n THEN <<"images", i>>
    ELSE IF n >= 1 THEN <<"tts", 1>> ELSE <<"compose", 0>>

AfterTTS(i, n) == IF i <= n THEN <<"tts", i>> ELSE <<"compose", 0>>

\* the file `name` now holds `content`
WriteFile(files, name, content) ==
    [f \in DOMAIN files \cup {name} |-> IF f = name THEN content ELSE files[f]]

\* script_gen.generate in placeholder mode
GenerateScriptPlaceholder ==
    /\ pc = "start"
    /\ pipeline.script_gen.use_placeholder
    /\ LET num_scenes == NumScenesFor(pipeline.target_duration)
           s == GeneratePlaceholder(Prompt, num_scenes)
           p == AfterImages(1, Len(s.scenes))
       IN  /\ calls' = Append(calls, Call("script", num_scenes))
           /\ script' = s
           /\ pc' = p[1]
           /\ idx' = p[2]
    /\ UNCHANGED <<composer, out_arg, composeVars, pipeline, temp_files,
                   create_result, response, raised, 
                   wrapVars, auxVars>>

\* script_gen.generate with the language model: the reply is parsed and
\* turned into a Script
GenerateScriptLLM ==
    /\ pc = "start"
    /\ ~pipeline.script_gen.use_placeholder
    /\ \E data \in Responses :
         LET num_scenes == NumScenesFor(pipeline.target_duration)
             s == ScriptFromResponse(data)
             p == AfterImages(1, Len(s.scenes))
         IN  /\ calls' = Append(calls, Call("script", num_scenes))
             /\ response' = Some(data)
             /\ script' = s
             /\ pc' = p[1]
             /\ idx' = p[2]
    /\ UNCHANGED <<composer, out_arg, composeVars, pipeline, temp_files,
                   create_result, raised, 
                   wrapVars, auxVars>>

\* the language model call or the parsing of its reply raises
GenerateScriptFails ==
    /\ pc = "start"
    /\ ~pipeline.script_gen.use_placeholder
    /\ calls' = Append(calls, Call("script", NumScenesFor(pipeline.target_duration)))
    /\ raised' = Some(Call("script", NumScenesFor(pipeline.target_duration)))
    /\ pc' = "failed"
    /\ UNCHANGED <<composer, script, out_arg, composeVars, pipeline, idx,
                   temp_files, create_result, response, 
                   wrapVars, auxVars>>

\* image_gen.generate(scene.image_prompt, scene.scene_number) for scene idx
GenerateImage ==
    /\ pc = "images"
    /\ LET scene == script.scenes[idx]
           path  == ImagePath(scene.scene_number)
           p     == AfterImages(idx + 1, Len(script.scenes))
       IN  /\ calls' = Append(calls, Call("image", idx))
           /\ temp_files' = WriteFile(temp_files, path,
                 [kind |-> "image", scene |-> idx, source |-> scene.image_prompt])
           /\ script' = [script EXCEPT !.scenes[idx].image_path = Some(path)]
           /\ pc' = p[1]
           /\ idx' = p[2]
    /\ UNCHANGED <<composer, out_arg, composeVars, pipeline, create_result,
                   response, raised, 
                   wrapVars, auxVars>>

\* the image call repeated after its failure (a faulty variant)
GenerateImageFailsRetried ==
    /\ pc = "images"
    /\ calls' = Append(calls, Call("image", idx))
    /\ raised' = Some(Call("image", idx))
    /\ UNCHANGED <<composer, script, out_arg, composeVars, pc, pipeline, idx,
                   temp_files, create_result, response, wrapVars, auxVars>>

\* image_gen.generate raises: create is left with the exception

GenerateImageFails ==
    /\ pc = "images"
    /\ calls' = Append(calls, Call("image", idx))
    /\ raised' = Some(Call("image", idx))
    /\ pc' = "failed"
    /\ UNCHANGED <<composer, script, out_arg, composeVars, pipeline, idx,
                   temp_files, create_result, response, 
                   wrapVars, auxVars>>

\* tts_gen.generate(scene.narration, scene.scene_number) for scene idx
GenerateTTS ==
    /\ pc = "tts"
    /\ \E duration \in 1..MaxDur :
         LET scene == script.scenes[idx]
             path  == AudioPath(scene.scene_number)
             p     == AfterTTS(idx + 1, Len(script.scenes))
         IN  /\ calls' = Append(calls, Call("tts", idx))
             /\ temp_files' = WriteFile(temp_files, path,
                   [kind |-> "audio", scene |-> idx, source |-> scene.narration])
             /\ script' = [script EXCEPT !.scenes[idx].audio_path = Some(path),
                                         !.scenes[idx].duration = Some(duration)]
             /\ pc' = p[1]
             /\ idx' = p[2]
    /\ UNCHANGED <<composer, out_arg, composeVars, pipeline, create_result,
                   response, raised, 
                   wrapVars, auxVars>>

GenerateTTSFails ==
    /\ pc = "tts"
    /\ calls' = Append(calls, Call("tts", idx))
    /\ raised' = Some(Call("tts", idx))
    /\ pc' = "failed"
    /\ UNCHANGED <<composer, script, out_arg, composeVars, pipeline, idx,
                   temp_files, create_result, response, 
                   wrapVars, auxVars>>

\* video_composer.compose(project.script, output_filename) is entered
CallCompose ==
    /\ pc = "compose"
    /\ calls' = Append(calls, Call("compose", 0))
    /\ pc' = "composing"
    /\ cpc' = "loop"
    /\ UNCHANGED <<composer, script, out_arg, clips, final_clip, open_clips,
                   output_files, compose_result, compose_error, pipeline, idx,
                   temp_files, create_result, response, encoded, raised, 
                   wrapVars, auxVars>>

\* compose returned: create returns its path
Finish ==
    /\ pc = "composing"
    /\ cpc = "returned"
    /\ pc' = "done"
    /\ create_result' = compose_result
    /\ UNCHANGED <<composer, script, out_arg, composeVars, pipeline, idx,
                   calls, temp_files, response, raised, 
                   wrapVars, auxVars>>

\* compose raised: create is left with the exception
ComposeFailed ==
    /\ pc = "composing"
    /\ cpc = "raised"
    /\ raised' = Some(Call("compose", 0))
    /\ pc' = "failed"
    /\ UNCHANGED <<composer, script, out_arg, composeVars, pipeline, idx,
                   calls, temp_files, create_result, response, 
                   wrapVars, auxVars>>

TargetDurations == {17, 90, 180}

\* ScriptGenerator.__init__: the client is built unless use_placeholder
ScriptGeneratorInit(use_placeholder) ==
    [use_placeholder |-> use_placeholder,
     client |-> IF use_placeholder THEN None ELSE Some("Anthropic")]

\* ImageGenerator.__init__: the generator built for a provider, given which
\* keys the environment holds
ImageGeneratorInit(provider, env) ==
    CASE provider = "auto" /\ env.gemini ->
           [provider |-> "gemini", generator |-> "GeminiImageGenerator"]
      [] provider = "auto" /\ ~env.gemini /\ env.openai ->
           [provider |-> "openai", generator |-> "OpenAIImageGenerator"]
      [] provider = "auto" /\ ~env.gemini /\ ~env.openai ->
           [provider |-> "placeholder", generator |-> "PlaceholderImageGenerator"]
      [] provider = "gemini" ->
           [provider |-> "gemini", generator |-> "GeminiImageGenerator"]
      [] provider = "openai" ->
           [provider |-> "openai", generator |-> "OpenAIImageGenerator"]
      [] OTHER ->
           [provider |-> "placeholder", generator |-> "PlaceholderImageGenerator"]

\* the image_provider argument handed on whatever the mode (a faulty
\* variant)
ImageProviderArgIgnoringMode(test_mode, image_provider) == image_provider

\* "placeholder" if test_mode else image_provider
ImageProviderArg(test_mode, image_provider) ==
    IF test_mode THEN "placeholder" ELSE image_provider

\* the composer the pipeline constructs: the transition duration is the default
PipelineComposer(a) ==
    VideoComposer(PresetOf(a.resolution)[1], PresetOf(a.resolution)[2],
                  a.enable_subtitles, a.enable_transitions,
                  DefaultTransitionDuration)

\* DDalkkakPipeline.__init__: the pipeline's fields (the composer apart)
DDalkkakPipeline(a) ==
    [script_gen |-> ScriptGeneratorInit(a.test_mode),
     image_gen  |-> ImageGeneratorInit(
                      ImageProviderArg(a.test_mode, a.image_provider), a.env),
     tts_gen    |-> "TTSGenerator",
     target_duration |-> a.target_duration,
     test_mode  |-> a.test_mode,
     resolution |-> a.resolution]

NoKeys == [anthropic |-> FALSE, gemini |-> FALSE, openai |-> FALSE]
Envs == [anthropic : BOOLEAN, gemini : BOOLEAN, openai : BOOLEAN]

\* the constructor's arguments in the runs of create: images by the
\* placeholder generator, the default resolution
RunArgs ==
    [image_provider : {"placeholder"}, target_duration : TargetDurations,
     test_mode : BOOLEAN, enable_subtitles : BOOLEAN,
     enable_transitions : BOOLEAN, resolution : {"1080p"}, env : {NoKeys}]

PipelineComposers == {PipelineComposer(a) : a \in RunArgs}

Init ==
    /\ \E a \in RunArgs :
          /\ composer = PipelineComposer(a)
          /\ pipeline = DDalkkakPipeline(a)
    /\ out_arg \in OutArgs
    /\ script = [title |-> <<>>, scenes |-> <<>>]
    /\ pc = "start"
    /\ idx = 0
    /\ calls = <<>>
    /\ temp_files = <<>>
    /\ create_result = None
    /\ response = None
    /\ raised = None
    /\ cpc = "idle"
    /\ clips = <<>>
    /\ final_clip = None
    /\ open_clips = {}
    /\ output_files = {}
    /\ compose_result = None
    /\ compose_error = None
    /\ encoded = <<>>
    /\ InitIdleWrap
    /\ InitIdleAux

Next ==
    \/ GenerateScriptPlaceholder
    \/ GenerateScriptLLM
    \/ GenerateScriptFails
    \/ GenerateImage
    \/ GenerateImageFails
    \/ GenerateTTS
    \/ GenerateTTSFails
    \/ CallCompose
    \/ ComposeLoopStep
    \/ Concatenate
    \/ WriteVideofile
    \/ WriteVideofileFails
    \/ Finish
    \/ ComposeFailed

Spec == Init /\ [][Next]_vars

(***************************************************************************)
(* Properties of VideoComposer.compose (SpecCompose)                       *)
(***************************************************************************)
NumScenes == Len(script.scenes)

\* position of the first scene lacking its image or audio reference, else 0
FirstMissing ==
    IF \E k \in 1..NumScenes : MissingArtifact(script.scenes[k])
    THEN CHOOSE k \in 1..NumScenes :
            /\ MissingArtifact(script.scenes[k])
            /\ \A j \in 1..(k - 1) : ~MissingArtifact(script.scenes[j])
    ELSE 0

FullyPopulated ==
    \A k \in 1..NumScenes :
        /\ ~MissingArtifact(script.scenes[k])
        /\ script.scenes[k].duration # None

\* C1: compose_scene on a scene whose image or audio reference is unset
\* raises a ValueError carrying that scene's number and builds no clip for
\* it; compose on a script containing such a scene never gets past it: it
\* ends with that error (of the first such scene), concatenates nothing,
\* returns no path and writes no output file.
C1_MissingArtifactRaises ==
    FirstMissing > 0 =>
        /\ Len(clips) < FirstMissing
        /\ cpc \in {"loop", "raised"}
        /\ cpc = "raised" =>
              /\ Len(clips) = FirstMissing - 1
              /\ compose_error = Some([type |-> "ValueError",
                     scene |-> Some(script.scenes[FirstMissing].scene_number)])
        /\ final_clip = None
        /\ compose_result = None
        /\ output_files = {}

\* a later scene lacks an artifact: the clips before it were built, then the
\* ValueError naming it was raised
C1_Witness ==
    /\ cpc = "raised"
    /\ FirstMissing = 2
    /\ Len(clips) = 1
    /\ compose_error # None
    /\ compose_error[1].scene = Some(script.scenes[2].scene_number)
    /\ script.scenes[2].scene_number # 2

HasFadeIn(clip) == clip.fadein # None
HasFadeOut(clip) == clip.fadeout # None

\* C2 as stated: with transitions enabled and more than one scene, exactly
\* the first clip has a fade-in and exactly the last a fade-out; with
\* transitions disabled no clip has a fade.
C2_FadePolicyAsStated ==
    (Len(clips) = NumScenes /\ NumScenes > 1) =>
        \A k \in 1..Len(clips) :
            IF composer.enable_transitions
            THEN /\ HasFadeIn(clips[k]) <=> (k = 1)
                 /\ HasFadeOut(clips[k]) <=> (k = NumScenes)
            ELSE ~HasFadeIn(clips[k]) /\ ~HasFadeOut(clips[k])

\* C2 (amended): with transitions enabled, a positive transition duration
\* and more than one scene, exactly the first clip has a fade-in and exactly
\* the last a fade-out, each of the transition duration; with transitions
\* disabled, or a transition duration that is not positive, no clip has a
\* fade.
C2_FadePolicy ==
    NumScenes > 1 =>
        \A k \in 1..Len(clips) :
            IF composer.enable_transitions /\ composer.transition_duration > 0
            THEN /\ HasFadeIn(clips[k]) <=> (k = 1)
                 /\ HasFadeOut(clips[k]) <=> (k = NumScenes)
                 /\ HasFadeIn(clips[k]) =>
                       clips[k].fadein = Some(composer.transition_duration)
                 /\ HasFadeOut(clips[k]) =>
                       clips[k].fadeout = Some(composer.transition_duration)
            ELSE ~HasFadeIn(clips[k]) /\ ~HasFadeOut(clips[k])

\* three scenes composed with transitions: the edge fades are there
C2_Witness ==
    /\ cpc = "returned"
    /\ Len(clips) = 3
    /\ composer.enable_transitions
    /\ HasFadeIn(clips[1]) /\ HasFadeOut(clips[3])
    /\ ~HasFadeIn(clips[2]) /\ ~HasFadeOut(clips[2])

\* C3: the timeline compose encodes lasts the sum of the scenes' durations:
\* every clip lasts its scene's duration, faded or not, and the total is
\* Script.total_duration.
C3_TotalDuration ==
    final_clip # None =>
        /\ FullyPopulated /\ NumScenes >= 1
        /\ \A k \in 1..NumScenes :
              final_clip[1].segments[k].duration = script.scenes[k].duration
        /\ final_clip[1].duration = total_duration(script)
        /\ final_clip[1].duration =
              SumSeq([k \in 1..NumScenes |-> script.scenes[k].duration[1]])

\* a faded timeline of scenes of different durations was encoded
C3_Witness ==
    /\ cpc = "returned"
    /\ NumScenes >= 2
    /\ final_clip[1].duration >= 3
    /\ HasFadeIn(clips[1])
    /\ script.scenes[1].duration # script.scenes[2].duration

\* C4: compose builds one clip per scene and concatenates them in script
\* order: segment k of the timeline shows scene k's image with scene k's
\* narration as subtitle (when subtitles are on) and plays scene k's audio.
C4_OneClipPerSceneInOrder ==
    /\ Len(clips) <= NumScenes
    /\ final_clip # None =>
        /\ Len(final_clip[1].segments) = NumScenes
        /\ \A k \in 1..NumScenes :
              LET seg   == final_clip[1].segments[k]
                  scene == script.scenes[k]
              IN  /\ seg.frame.img = scene.image_path[1]
                  /\ seg.audio = scene.audio_path
                  /\ DisplayedLines(seg.frame) =
                        IF composer.enable_subtitles /\ scene.narration # <<>>
                        THEN <<scene.narration>> ELSE <<>>

\* three scenes with distinct artifacts, subtitled, were encoded
C4_Witness ==
    /\ cpc = "returned"
    /\ NumScenes = 3
    /\ composer.enable_subtitles
    /\ script.scenes[1].narration # script.scenes[2].narration
    /\ Len(DisplayedLines(final_clip[1].segments[1].frame))
         # Len(DisplayedLines(final_clip[1].segments[2].frame))

\* C5: every clip opened during compose is closed once compose has returned
\* or raised.
C5_ClipsClosedOnExit ==
    cpc \in {"returned", "raised"} => open_clips = {}

\* what the code does ensure: a successful compose leaves no clip open
C5_ClosedOnSuccess ==
    cpc = "returned" => open_clips = {}

(***************************************************************************)
(* Properties of ScriptGenerator.generate and DDalkkakPipeline.create      *)
(* (Spec)                                                                  *)
(***************************************************************************)
\* script_gen.generate has returned a Script
ScriptGenerated ==
    /\ pc \notin {"idle", "start"}
    /\ ~(pc = "failed" /\ Len(calls) = 1)

\* C8: in every Script generate returns the k-th scene has scene_number k.
C8_SceneNumbersSequential ==
    ScriptGenerated =>
        \A k \in 1..NumScenes : script.scenes[k].scene_number = k

\* what the code does ensure: the placeholder script is numbered 1, 2, ...
C8_PlaceholderNumbersSequential ==
    (ScriptGenerated /\ pipeline.test_mode) =>
        \A k \in 1..NumScenes : script.scenes[k].scene_number = k

\* C9 as stated: the returned script has max(5, target_duration // 18)
\* scenes, in placeholder mode and in language-model mode.
C9_SceneCountAsStated ==
    ScriptGenerated =>
        NumScenes = Max(5, pipeline.target_duration \div 18)

\* C9 (amended): generate derives the scene count max(5,
\* target_duration // 18), never below 5, and asks for it; in placeholder
\* mode the returned script has min(that count, 5) = 5 scenes whatever the
\* target duration; in language-model mode it has as many scenes as the
\* reply holds.
C9_SceneCount ==
    ScriptGenerated =>
        /\ calls[1] = Call("script", Max(5, pipeline.target_duration \div 18))
        /\ calls[1].k >= 5
        /\ pipeline.test_mode => NumScenes = 5
        /\ ~pipeline.test_mode =>
              response # None /\ NumScenes = Len(response[1].scenes)

\* a placeholder script for three minutes: 10 scenes derived, 5 returned
C9_Witness ==
    /\ ScriptGenerated
    /\ pipeline.test_mode
    /\ pipeline.target_duration = 180
    /\ calls[1].k = 10
    /\ NumScenes = 5

\* the calls of a complete run on n scenes
ExpectedCalls(n, num_scenes) ==
    <<Call("script", num_scenes)>>
    \o [k \in 1..n |-> Call("image", k)]
    \o [k \in 1..n |-> Call("tts", k)]
    \o <<Call("compose", 0)>>

IsPrefix(a, b) == Len(a) <= Len(b) /\ a = SubSeq(b, 1, Len(a))

\* C10: the calls create makes are, in this order, the script generation,
\* one image call per scene, one narration call per scene and one compose
\* call (a run that a failing call cuts short has made a prefix of them);
\* compose is entered only when every scene has its image reference, audio
\* reference and duration, and a run that completes has made all the calls.
C10_StagesInOrder ==
    LET exp == ExpectedCalls(NumScenes, NumScenesFor(pipeline.target_duration))
    IN  /\ IsPrefix(calls, exp)
        /\ cpc # "idle" => (FullyPopulated /\ calls = exp)
        /\ pc = "done" => (calls = exp /\ cpc = "returned")
        /\ \A k \in 1..NumScenes :
              /\ script.scenes[k].image_path # None => Call("image", k) \in Range(calls)
              /\ script.scenes[k].audio_path # None => Call("tts", k) \in Range(calls)

\* a complete run on several scenes
C10_Witness ==
    /\ pc = "done"
    /\ NumScenes >= 2
    /\ Len(calls) = 2 * NumScenes + 2
    /\ create_result # None

(***************************************************************************)
(* VideoComposer._add_subtitle_to_image called on its own (SpecWrap)       *)
(***************************************************************************)
BlockLens == {0, 39, 45}
BlockEnds == {<<>>, <<" ">>, <<".">>}

\* a run of letters and what ends it
Blocks == {Repeat("a", n) \o e : n \in BlockLens, e \in BlockEnds}

RECURSIVE Flatten(_)
Flatten(bs) == IF bs = <<>> THEN <<>> ELSE Head(bs) \o Flatten(Tail(bs))

WrapTexts == UNION {{Flatten(bs) : bs \in [1..n -> Blocks]} : n \in 0..MaxBlocks}

WrapComposers ==
    {VideoComposer(PresetOf(r)[1], PresetOf(r)[2], TRUE, TRUE,
                   DefaultTransitionDuration) : r \in ResolutionKeys}

\* the frame handed to the renderer
InputFrame == Frame("img", composer.width, composer.height)

InitWrap ==
    /\ composer \in WrapComposers
    /\ wtext \in WrapTexts
    /\ wout = None
    /\ script = [title |-> <<>>, scenes |-> <<>>]
    /\ out_arg = None
    /\ cpc = "idle"
    /\ clips = <<>>
    /\ final_clip = None
    /\ open_clips = {}
    /\ output_files = {}
    /\ compose_result = None
    /\ compose_error = None
    /\ encoded = <<>>
    /\ InitIdlePipeline
    /\ InitIdleAux

\* self._add_subtitle_to_image(img_array, text)
Render ==
    /\ wout = None
    /\ wout' = Some(AddSubtitleToImage(InputFrame, wtext,
                                       composer.width, composer.height))
    /\ UNCHANGED <<composer, script, out_arg, composeVars, pipeVars, wtext,
                   auxVars>>

WrapNext == Render

SpecWrap == InitWrap /\ [][WrapNext]_vars

EndsWith(s, t) ==
    Len(s) >= Len(t) /\ SubSeq(s, Len(s) - Len(t) + 1, Len(s)) = t

\* C6: the renderer shows at most 2 lines, and when the greedy wrap gave more
\* than 2 lines the lines shown are its first two, the second one ending
\* with "...".
C6_AtMostTwoLines ==
    wout # None =>
        LET shown  == DisplayedLines(wout[1])
            greedy == GreedyWrap(wtext)
        IN  /\ Len(shown) <= 2
            /\ Len(greedy) > 2 =>
                  /\ Len(shown) = 2
                  /\ shown[1] = greedy[1]
                  /\ EndsWith(shown[2], Ellipsis)
                  /\ shown[2] = greedy[2] \o Ellipsis
            /\ Len(greedy) <= 2 => shown = greedy

\* a text of three wrapped lines was rendered
C6_Witness ==
    /\ wout # None
    /\ Len(GreedyWrap(wtext)) > 2
    /\ Len(DisplayedLines(wout[1])) = 2

\* C7: for an empty text the renderer returns its input frame: no band and
\* no text drawn.
C7_EmptyTextLeavesFrame ==
    (wout # None /\ wtext = <<>>) => wout[1] = InputFrame

\* what the code does ensure: compose_scene does not call the renderer for
\* an empty narration, so such a scene's frame is the resized image
C7_EmptyNarrationSkipsRenderer ==
    \A k \in 1..Len(clips) :
        script.scenes[k].narration = <<>> =>
            clips[k].frame = Frame(script.scenes[k].image_path[1],
                                   composer.width, composer.height)

(***************************************************************************)
(* Failures in DDalkkakPipeline.create (Spec)                              *)
(***************************************************************************)
NoCallTwice == \A i, j \in 1..Len(calls) : i # j => calls[i] # calls[j]

\* a collaborator call (script, image, narration) has failed
CollaboratorFailed == raised # None /\ raised[1].op # "compose"

\* the state create is left in by a failed collaborator call
FailedFast ==
    CollaboratorFailed =>
        /\ pc = "failed"
        /\ calls[Len(calls)] = raised[1]
        /\ NoCallTwice
        /\ Call("compose", 0) \notin Range(calls)
        /\ cpc = "idle"
        /\ output_files = {}
        /\ create_result = None

\* nothing more is called, started or returned after a failure
NothingAfterFailure ==
    raised # None =>
        /\ calls' = calls
        /\ pc' = pc
        /\ cpc' = cpc
        /\ create_result' = create_result
        /\ script' = script

\* C11: when a collaborator call fails, create is left at once: the failed
\* call is the last call made and was made once, no call for a later scene
\* or stage follows, compose is never entered and no path is returned.
C11_FailFast == [](FailedFast) /\ [][NothingAfterFailure]_vars

\* the narration of the second scene failed after the images were made
C11_Witness ==
    /\ CollaboratorFailed
    /\ raised[1] = Call("tts", 2)
    /\ NumScenes >= 2
    /\ Len(calls) = NumScenes + 3
    /\ script.scenes[1].audio_path # None

(***************************************************************************)
(* More properties of VideoComposer.compose (SpecCompose)                  *)
(***************************************************************************)
\* C12: compose on a script without scenes ends with an exception: nothing
\* is concatenated, no path is returned and no file is written.
C12_NoScenesFails ==
    NumScenes = 0 =>
        /\ cpc \in {"loop", "raised"}
        /\ cpc = "raised" => compose_error # None
        /\ final_clip = None
        /\ compose_result = None
        /\ output_files = {}
        /\ encoded = <<>>

\* compose was called on a script without scenes and has raised
C12_Witness ==
    /\ NumScenes = 0
    /\ cpc = "raised"
    /\ clips = <<>>
    /\ compose_error # None

\* every encoding of the script so far gave the same path and duration,
\* the duration being the script's total duration
SameOutputEveryTime ==
    /\ \A i, j \in 1..Len(encoded) : encoded[i] = encoded[j]
    /\ \A i \in 1..Len(encoded) :
          /\ encoded[i].duration = total_duration(script)
          /\ encoded[i].path \in output_files

\* C13: compose leaves the script as it found it, so composing the same
\* fully populated script again with the same configuration gives an output
\* of the same total duration at the same path.
C13_ComposeIdempotent == [](SameOutputEveryTime) /\ [][script' = script]_vars

\* a script of several scenes was composed twice
C13_Witness ==
    /\ Len(encoded) = 2
    /\ cpc = "returned"
    /\ NumScenes >= 2
    /\ encoded[2].duration >= 3

(***************************************************************************)
(* DDalkkakPipeline.__init__ on any arguments (SpecInit)                   *)
(***************************************************************************)
ImageProviders == {"auto", "gemini", "openai", "placeholder", "dalle"}
Resolutions == ResolutionKeys \cup {"8k", ""}

CtorArgs ==
    [image_provider : ImageProviders, target_duration : TargetDurations,
     test_mode : BOOLEAN, enable_subtitles : BOOLEAN,
     enable_transitions : {TRUE}, resolution : Resolutions, env : Envs]

\* sizes of the images the generators write (placeholder, DALL-E)
SourceSizes == {<<1920, 1080>>, <<1792, 1024>>}

\* Image.open(path) resized to (width, height): the source's size is gone
LoadAndResize(image, width, height) == Frame(image.path, width, height)

InitCtor ==
    /\ ctor_args \in {Some(a) : a \in CtorArgs}
    /\ pc = "new"
    /\ pipeline = [test_mode |-> FALSE, target_duration |-> 0]
    /\ composer = VideoComposer(DEFAULT_VIDEO_WIDTH, DEFAULT_VIDEO_HEIGHT,
                                TRUE, TRUE, DefaultTransitionDuration)
    /\ idx = 0
    /\ calls = <<>>
    /\ temp_files = <<>>
    /\ create_result = None
    /\ response = None
    /\ raised = None
    /\ script = [title |-> <<>>, scenes |-> <<>>]
    /\ out_arg = None
    /\ cpc = "idle"
    /\ clips = <<>>
    /\ final_clip = None
    /\ open_clips = {}
    /\ output_files = {}
    /\ compose_result = None
    /\ compose_error = None
    /\ encoded = <<>>
    /\ runs = <<>>
    /\ scratch = None
    /\ InitIdleWrap

\* DDalkkakPipeline(**ctor_args)
Construct ==
    /\ pc = "new"
    /\ pipeline' = DDalkkakPipeline(ctor_args[1])
    /\ composer' = PipelineComposer(ctor_args[1])
    /\ pc' = "start"
    /\ UNCHANGED <<script, out_arg, composeVars, idx, calls, temp_files,
                   create_result, response, raised, wrapVars, auxVars>>

\* compose_scene's first step on the image of a scene: load and resize
ResizeSceneImage ==
    /\ pc = "start"
    /\ wout = None
    /\ \E size \in SourceSizes :
         wout' = Some(LoadAndResize([path |-> "img", size |-> size],
                                    composer.width, composer.height))
    /\ UNCHANGED <<composer, script, out_arg, composeVars, pipeVars, wtext,
                   auxVars>>

CtorNext == Construct \/ ResizeSceneImage

SpecInit == InitCtor /\ [][CtorNext]_vars

\* the collaborators that need a credential
CredentialedGenerators == {"GeminiImageGenerator", "OpenAIImageGenerator"}

\* C14: a pipeline constructed with test_mode = TRUE has the placeholder
\* script generator (no language-model client) and the placeholder image
\* generator, whatever the image_provider argument and the keys of the
\* environment are.
C14_TestModeUsesPlaceholders ==
    (pc = "start" /\ ctor_args[1].test_mode) =>
        /\ pipeline.test_mode
        /\ pipeline.script_gen.use_placeholder
        /\ pipeline.script_gen.client = None
        /\ pipeline.image_gen.provider = "placeholder"
        /\ pipeline.image_gen.generator \notin CredentialedGenerators

\* test mode asked for together with the OpenAI provider, keys present
C14_Witness ==
    /\ pc = "start"
    /\ ctor_args[1].test_mode
    /\ ctor_args[1].image_provider = "openai"
    /\ ctor_args[1].env.openai
    /\ ctor_args[1].env.gemini
    /\ pipeline.image_gen.provider = "placeholder"

(***************************************************************************)
(* The output file name derived from the title (SpecCompose)               *)
(***************************************************************************)
\* the characters the claim says are kept
StatedFilenameChar(c) == IsAlnum(c) \/ c \in {" ", "-", "_"}

\* C15: with no output name given, the name of the encoded file is the
\* title's alphanumeric, space, hyphen and underscore characters in their
\* order, followed by ".mp4", and its stem is not empty.
C15_FilenameFromTitle ==
    \A i \in 1..Len(encoded) :
        out_arg = None =>
            LET kept == SelectSeq(script.title, StatedFilenameChar)
            IN  /\ encoded[i].path = kept \o Mp4
                /\ kept # <<>>
                /\ Len(encoded[i].path) > Len(Mp4)

\* what the code does ensure: the name is the stripped filtered title and
\* ".mp4", of allowed characters only (the stem may be empty)
C15_FilenameIsStrippedTitle ==
    \A i \in 1..Len(encoded) :
        out_arg = None =>
            LET kept == SelectSeq(script.title, StatedFilenameChar)
            IN  /\ encoded[i].path = Strip(kept) \o Mp4
                /\ \A k \in 1..(Len(encoded[i].path) - Len(Mp4)) :
                       StatedFilenameChar(encoded[i].path[k])

(***************************************************************************)
(* The frame size (SpecInit)                                               *)
(***************************************************************************)
\* the size the claim states for a resolution key
StatedSize(key) ==
    CASE key = "720p"  -> <<1280, 720>>
      [] key = "1080p" -> <<1920, 1080>>
      [] key = "1440p" -> <<2560, 1440>>
      [] key = "4k"    -> <<3840, 2160>>
      [] OTHER         -> <<1920, 1080>>

\* C16: the composer of a constructed pipeline has the size stated for the
\* resolution key (1920x1080 for an unknown key), and a scene image of any
\* size is resized to exactly that size.
C16_FrameSizeFromResolution ==
    pc = "start" =>
        /\ <<composer.width, composer.height>>
             = StatedSize(ctor_args[1].resolution)
        /\ wout # None => wout[1].size = StatedSize(ctor_args[1].resolution)

\* a pipeline built with an unknown key has resized an image
C16_Witness ==
    /\ pc = "start"
    /\ ctor_args[1].resolution = "8k"
    /\ wout # None
    /\ wout[1].size = <<1920, 1080>>

(***************************************************************************)
(* Where the subtitle wrap breaks (SpecWrap)                               *)
(***************************************************************************)
\* sentence and clause punctuation
Punctuation == {".", ",", "!", "?", "u3002", "uFF0C", "uFF01", "uFF1F"}

\* the lines shown are the text cut only after characters of `chars`, each
\* cut at least max_chars_per_line characters after the line's start; a
\* text shown on one line is shown whole
BrokenOnlyAfter(chars) ==
    wout # None =>
        LET shown == DisplayedLines(wout[1])
            n     == Len(wtext)
        IN  /\ Len(shown) <= 2
            /\ Len(shown) = 0 => wtext = <<>>
            /\ Len(shown) = 1 => shown[1] = Strip(wtext)
            /\ Len(shown) = 2 =>
                 \E j \in max_chars_per_line..n :
                    /\ wtext[j] \in chars
                    /\ shown[1] = Strip(SubSeq(wtext, 1, j))
                    /\ \/ shown[2] = Strip(SubSeq(wtext, j + 1, n))
                       \/ \E k \in (j + max_chars_per_line)..n :
                            /\ wtext[k] \in chars
                            /\ shown[2] = Strip(SubSeq(wtext, j + 1, k))
                                            \o Ellipsis

\* C17 as stated: a line is broken only right after a sentence or clause
\* punctuation character, and only when the line is at least 40 characters
\* long; a text with no such place is shown on one line.
C17_BreaksOnlyAfterPunctuation == BrokenOnlyAfter(Punctuation)

\* C17: a line is broken only right after a space or a sentence or clause
\* punctuation character (one of " .,!?" and their full-width forms), and
\* only when the line is at least 40 characters long; a text with no such
\* place is shown on one line.
C17_BreaksOnlyAfterBreakChars == BrokenOnlyAfter(BreakChars)

\* a line of 45 letters broken after the space that follows them, and then
\* 45 letters with nothing to break at
C17_Witness ==
    /\ wout # None
    /\ Len(wtext) = 91
    /\ wtext[46] = " "
    /\ DisplayedLines(wout[1]) = <<Repeat("a", 45), Repeat("a", 45)>>

(***************************************************************************)
(* When the ellipsis marker is added (SpecWrap)                            *)
(***************************************************************************)
\* the lines l1 and l2 together are the whole of the text t
ShowWhole(t, l1, l2) ==
    \E j \in 0..Len(t) :
        /\ Strip(SubSeq(t, 1, j)) = l1
        /\ Strip(SubSeq(t, j + 1, Len(t))) = l2

\* C18: the marker is added to the second line only when text remains
\* beyond the two lines: when the two lines without the marker are the whole
\* text (surrounding whitespace apart), the second line carries no marker;
\* and lines shown without a marker are the whole text.
C18_MarkerOnlyIfTextRemains ==
    wout # None =>
        LET shown == DisplayedLines(wout[1])
            t     == Strip(wtext)
        IN  /\ (Len(shown) = 2 /\ EndsWith(shown[2], Ellipsis)) =>
                  ~ShowWhole(t, shown[1],
                             SubSeq(shown[2], 1, Len(shown[2]) - Len(Ellipsis)))
            /\ (Len(shown) = 2 /\ ~EndsWith(shown[2], Ellipsis)) =>
                  ShowWhole(t, shown[1], shown[2])
            /\ Len(shown) = 1 => shown[1] = t

(***************************************************************************)
(* The artifact files of the scenes (Spec)                                 *)
(***************************************************************************)
\* both loops over the scenes are done
StagesDone == pc \in {"compose", "composing", "done"}

\* scene k's references lead to what was generated for scene k
OwnsItsFiles(k) ==
    LET scene == script.scenes[k]
    IN  /\ scene.image_path # None
        /\ scene.audio_path # None
        /\ temp_files[scene.image_path[1]] =
             [kind |-> "image", scene |-> k, source |-> scene.image_prompt]
        /\ temp_files[scene.audio_path[1]] =
             [kind |-> "audio", scene |-> k, source |-> scene.narration]

\* no two scenes reference the same file
NoSharedFiles ==
    \A i, j \in 1..NumScenes :
        i # j => /\ script.scenes[i].image_path # script.scenes[j].image_path
                 /\ script.scenes[i].audio_path # script.scenes[j].audio_path

\* C19: after the image and narration stages no two scenes reference the
\* same image or audio file, and the file a scene references holds what was
\* generated from that scene's image prompt and narration.
C19_ArtifactsOwnedByScene ==
    StagesDone => /\ NoSharedFiles
                  /\ \A k \in 1..NumScenes : OwnsItsFiles(k)

\* what the code does ensure: the same, for the scripts whose scenes have
\* distinct numbers
C19_OwnedWhenNumbersDistinct ==
    (/\ StagesDone
     /\ \A i, j \in 1..NumScenes :
           i # j => script.scenes[i].scene_number
                       # script.scenes[j].scene_number)
    => /\ NoSharedFiles
       /\ \A k \in 1..NumScenes : OwnsItsFiles(k)

(***************************************************************************)
(* Two runs of the pipeline at once, on one installation (SpecTwoRuns)     *)
(***************************************************************************)
\* the two sessions
RunIds == {1, 2}

\* the scripts of the runs: replies whose scenes are numbered 1..n
RunScripts ==
    {ScriptFromResponse(d) :
        d \in {x \in Responses :
                 /\ x.title = <<"a", " ", "b">>
                 /\ Len(x.scenes) >= 1
                 /\ \A k \in 1..Len(x.scenes) : x.scenes[k].scene_number = k}}

\* OUTPUT_DIR / "temp_audio.m4a", the same path for every compose
TempAudioFile == "temp_audio.m4a"

\* a run before its first stage: used is what compose_scene loaded for each
\* scene, muxed the audio track the encoder put in the video
NewRun == [pc |-> "start", idx |-> 0, script |-> [title |-> <<>>, scenes |-> <<>>],
           used |-> <<>>, muxed |-> None]

InitTwoRuns ==
    /\ runs = [r \in RunIds |-> NewRun]
    /\ scratch = None
    /\ ctor_args = None
    /\ composer = VideoComposer(PresetOf("1080p")[1], PresetOf("1080p")[2],
                                TRUE, TRUE, DefaultTransitionDuration)
    /\ script = [title |-> <<>>, scenes |-> <<>>]
    /\ out_arg = None
    /\ cpc = "idle"
    /\ clips = <<>>
    /\ final_clip = None
    /\ open_clips = {}
    /\ output_files = {}
    /\ compose_result = None
    /\ compose_error = None
    /\ encoded = <<>>
    /\ InitIdlePipeline
    /\ InitIdleWrap

\* stage 1 of run r: the script
RunScript(r) ==
    /\ runs[r].pc = "start"
    /\ \E s \in RunScripts :
         runs' = [runs EXCEPT ![r].script = s, ![r].pc = "images", ![r].idx = 1]
    /\ UNCHANGED <<composer, script, out_arg, composeVars, pipeVars, wrapVars,
                   ctor_args, scratch>>

\* stage 2 of run r, scene idx: image_gen.generate writes TEMP_DIR's
\* scene_{n:03d}.png
RunImage(r) ==
    /\ runs[r].pc = "images"
    /\ LET i     == runs[r].idx
           scene == runs[r].script.scenes[i]
           path  == ImagePath(scene.scene_number)
           p     == AfterImages(i + 1, Len(runs[r].script.scenes))
       IN  /\ temp_files' = WriteFile(temp_files, path,
                 [kind |-> "image", run |-> r, scene |-> i,
                  source |-> scene.image_prompt])
           /\ runs' = [runs EXCEPT
                         ![r].script.scenes[i].image_path = Some(path),
                         ![r].pc = p[1], ![r].idx = p[2]]
    /\ UNCHANGED <<composer, script, out_arg, composeVars, pc, pipeline, idx,
                   calls, create_result, response, raised, wrapVars,
                   ctor_args, scratch>>

\* stage 3 of run r, scene idx: tts_gen.generate writes TEMP_DIR's
\* audio_{n:03d}.mp3
RunTTS(r) ==
    /\ runs[r].pc = "tts"
    /\ LET i     == runs[r].idx
           scene == runs[r].script.scenes[i]
           path  == AudioPath(scene.scene_number)
           p     == AfterTTS(i + 1, Len(runs[r].script.scenes))
       IN  /\ temp_files' = WriteFile(temp_files, path,
                 [kind |-> "audio", run |-> r, scene |-> i,
                  source |-> scene.narration])
           /\ runs' = [runs EXCEPT
                         ![r].script.scenes[i].audio_path = Some(path),
                         ![r].script.scenes[i].duration = Some(1),
                         ![r].pc = IF p[1] = "compose" THEN "scenes" ELSE p[1],
                         ![r].idx = IF p[1] = "compose" THEN 1 ELSE p[2]]
    /\ UNCHANGED <<composer, script, out_arg, composeVars, pc, pipeline, idx,
                   calls, create_result, response, raised, wrapVars,
                   ctor_args, scratch>>

\* stage 4 of run r, compose's loop at scene idx: compose_scene opens the
\* image file and the audio file the scene references
RunComposeScene(r) ==
    /\ runs[r].pc = "scenes"
    /\ LET i     == runs[r].idx
           n     == Len(runs[r].script.scenes)
           scene == runs[r].script.scenes[i]
       IN  runs' = [runs EXCEPT
                      ![r].used = Append(@, [image |-> temp_files[scene.image_path[1]],
                                             audio |-> temp_files[scene.audio_path[1]]]),
                      ![r].pc = IF i < n THEN "scenes" ELSE "encode",
                      ![r].idx = IF i < n THEN i + 1 ELSE 0]
    /\ UNCHANGED <<composer, script, out_arg, composeVars, pipeVars, wrapVars,
                   ctor_args, scratch>>

\* write_videofile of run r, first part: the audio track is written to the
\* temp_audiofile
RunWriteTempAudio(r) ==
    /\ runs[r].pc = "encode"
    /\ scratch' = Some([file |-> TempAudioFile, run |-> r])
    /\ runs' = [runs EXCEPT ![r].pc = "mux"]
    /\ UNCHANGED <<composer, script, out_arg, composeVars, pipeVars, wrapVars,
                   ctor_args>>

\* write_videofile of run r, second part: the video is encoded with the
\* temp_audiofile as its audio track, and the temp_audiofile is removed
RunMux(r) ==
    /\ runs[r].pc = "mux"
    /\ scratch # None
    /\ runs' = [runs EXCEPT ![r].muxed = Some(scratch[1].run), ![r].pc = "done"]
    /\ scratch' = None
    /\ UNCHANGED <<composer, script, out_arg, composeVars, pipeVars, wrapVars,
                   ctor_args>>

\* the same when the temp_audiofile is gone: the encoder fails
RunMuxFails(r) ==
    /\ runs[r].pc = "mux"
    /\ scratch = None
    /\ runs' = [runs EXCEPT ![r].pc = "failed"]
    /\ UNCHANGED <<composer, script, out_arg, composeVars, pipeVars, wrapVars,
                   ctor_args, scratch>>

TwoRunsNext ==
    \E r \in RunIds :
        \/ RunScript(r)
        \/ RunImage(r)
        \/ RunTTS(r)
        \/ RunComposeScene(r)
        \/ RunWriteTempAudio(r)
        \/ RunMux(r)
        \/ RunMuxFails(r)

SpecTwoRuns == InitTwoRuns /\ [][TwoRunsNext]_vars

\* run r composed from the files it generated itself
UsesOwnFiles(r) ==
    /\ \A k \in 1..Len(runs[r].used) :
          /\ runs[r].used[k].image =
               [kind |-> "image", run |-> r, scene |-> k,
                source |-> runs[r].script.scenes[k].image_prompt]
          /\ runs[r].used[k].audio =
               [kind |-> "audio", run |-> r, scene |-> k,
                source |-> runs[r].script.scenes[k].narration]
    /\ runs[r].muxed # None => runs[r].muxed[1] = r
    /\ runs[r].pc # "failed"

\* C20: when two runs interleave, each run composes its video from the
\* image and audio files it generated itself, and encodes it with its own
\* scratch audio file.
C20_RunsUseOwnFiles == \A r \in RunIds : UsesOwnFiles(r)

\* what the code does ensure: a run whose stages do not overlap the other
\* run's uses its own files
C20_OwnFilesWhenAlone ==
    \A r, o \in RunIds :
        (r # o /\ runs[o].pc = "start") => UsesOwnFiles(r)

====
